---- MODULE Spec2Model ----
(***************************************************************************)
(* Model of 2_mcp_leave_management/main.py: the EmployeeManager MCP server *)
(* with its two module-level stores (employee_leaves, employee_tasks) and  *)
(* the tools registered on it.                                             *)
(*                                                                         *)
(* Spec      every tool call runs to completion before the next one        *)
(*           (one action per tool).                                        *)
(* SpecConc  two workers run apply_leave or complete_task at the same      *)
(*           time, one source statement (or one load/store of an augmented *)
(*           assignment) per step; the code takes no lock.                 *)
(***************************************************************************)
EXTENDS Integers, Sequences, FiniteSets, TLC

VARIABLES
    employee_leaves,   \* id -> [balance, history]      (main.py:9-12)
    employee_tasks,    \* id -> [tasks, completed]      (main.py:15-18)
    tool,              \* name of the tool whose call returned last ("" = none yet)
    result,            \* the value that call returned
    ncalls,            \* number of calls made so far (bounds the run)
    thr                \* SpecConc: each worker's position and locals

vars == <<employee_leaves, employee_tasks, tool, result, ncalls, thr>>

----------------------------------------------------------------------------
(* Bounds and inputs *)

MaxCalls == 4

D1 == "2025-03-01"
D2 == "2025-03-02"

\* n dates, alternating D1 and D2
Bulk(n) == [i \in 1..n |-> IF i % 2 = 1 THEN D1 ELSE D2]

\* the ids a caller may pass: the two known employees and an unknown one
Ids == {"E001", "E002", "E999"}

\* the date lists a caller may pass to apply_leave
DateLists ==
    {<<>>, <<D1>>, <<D1, D2>>, <<D2, D2>>} \cup {Bulk(n) : n \in {18, 19, 20, 21}}

\* the task names a caller may pass
TaskNames == {"Prepare report", "Update website", "Write tests"}

----------------------------------------------------------------------------
(* The stores as constructed at import time *)

\* the keys of both dicts, in insertion (= iteration) order
Keys == <<"E001", "E002">>

InitLeaves ==
    [id \in {"E001", "E002"} |->
        IF id = "E001"
        THEN [balance |-> 18, history |-> <<"2024-12-25", "2025-01-01">>]
        ELSE [balance |-> 20, history |-> <<>>]]

InitTasks ==
    [id \in {"E001", "E002"} |->
        IF id = "E001"
        THEN [tasks |-> <<"Prepare report", "Attend meeting">>,
              completed |-> <<"Prepare report">>]
        ELSE [tasks |-> <<"Update website", "Backup database">>,
              completed |-> <<>>]]

----------------------------------------------------------------------------
(* Helpers: Python list operations *)

\* x in xs
In(x, xs) == \E i \in 1..Len(xs) : xs[i] = x

\* [x for x in xs if x not in ys]
RECURSIVE NotIn(_, _)
NotIn(xs, ys) ==
    IF xs = <<>> THEN <<>>
    ELSE IF In(Head(xs), ys) THEN NotIn(Tail(xs), ys)
         ELSE <<Head(xs)>> \o NotIn(Tail(xs), ys)

\* ', '.join(xs) if xs else sentinel   (the joined text as its items)
JoinOr(xs, sentinel) == IF xs # <<>> THEN xs ELSE <<sentinel>>

NotFound == [kind |-> "NotFound"]

\* a returned call: the tool and its value are recorded, the call is counted
Return(name, value) ==
    /\ tool' = name
    /\ result' = value
    /\ ncalls' = ncalls + 1

----------------------------------------------------------------------------
(* Leave management tools *)

get_leave_balance(employee_id) ==
    /\ ncalls < MaxCalls
    /\ IF employee_id \in DOMAIN employee_leaves
       THEN Return("get_leave_balance",
                   [kind |-> "Balance", id |-> employee_id,
                    balance |-> employee_leaves[employee_id].balance])
       ELSE Return("get_leave_balance", NotFound)
    /\ UNCHANGED <<employee_leaves, employee_tasks, thr>>

\* a variant that puts the new dates in front of the history
Deduct_Prepend(rec, leave_dates) ==
    [balance |-> rec.balance - Len(leave_dates),
     history |-> leave_dates \o rec.history]

\* a variant that extends the history and leaves the balance as it is
Deduct_HistoryOnly(rec, leave_dates) ==
    [balance |-> rec.balance,
     history |-> rec.history \o leave_dates]

\* a variant that deducts what is left after the request instead of the request
Deduct_Remainder(rec, leave_dates) ==
    [balance |-> Len(leave_dates),
     history |-> rec.history \o leave_dates]

\* main.py:45-46, the two mutations of a successful apply_leave
Deduct(rec, leave_dates) ==
    [balance |-> rec.balance - Len(leave_dates),
     history |-> rec.history \o leave_dates]

\* a variant with the operands of the comparison swapped
Insufficient_Swapped(available_balance, requested_days) ==
    requested_days < available_balance

\* a variant that also rejects a request for exactly the balance, and lets
\* through one that exceeds it by one
Insufficient_OffByOne(available_balance, requested_days) ==
    available_balance + 1 < requested_days

\* a variant that also rejects a request for exactly the balance
Insufficient_OrEqual(available_balance, requested_days) ==
    available_balance <= requested_days

\* main.py:42, the balance check
Insufficient(available_balance, requested_days) ==
    available_balance < requested_days

\* a variant in which the records share one history list, so the dates land
\* in every employee's history
apply_leave_SharedHistory(employee_id, leave_dates) ==
    /\ ncalls < MaxCalls
    /\ IF employee_id \notin DOMAIN employee_leaves
       THEN /\ Return("apply_leave", NotFound)
            /\ UNCHANGED employee_leaves
       ELSE LET requested_days == Len(leave_dates)
                available_balance == employee_leaves[employee_id].balance
            IN  IF Insufficient(available_balance, requested_days)
                THEN /\ Return("apply_leave",
                               [kind |-> "Insufficient",
                                requested |-> requested_days,
                                available |-> available_balance])
                     /\ UNCHANGED employee_leaves
                ELSE /\ employee_leaves' =
                            [id \in DOMAIN employee_leaves |->
                                [balance |-> IF id = employee_id
                                             THEN employee_leaves[id].balance - requested_days
                                             ELSE employee_leaves[id].balance,
                                 history |-> employee_leaves[id].history \o leave_dates]]
                     /\ Return("apply_leave",
                               [kind |-> "Applied",
                                days |-> requested_days,
                                remaining |-> employee_leaves'[employee_id].balance])
    /\ UNCHANGED <<employee_tasks, thr>>

apply_leave(employee_id, leave_dates) ==
    /\ ncalls < MaxCalls
    /\ IF employee_id \notin DOMAIN employee_leaves
       THEN /\ Return("apply_leave", NotFound)
            /\ UNCHANGED employee_leaves
       ELSE LET requested_days == Len(leave_dates)
                available_balance == employee_leaves[employee_id].balance
            IN  IF Insufficient(available_balance, requested_days)
                THEN /\ Return("apply_leave",
                               [kind |-> "Insufficient",
                                requested |-> requested_days,
                                available |-> available_balance])
                     /\ UNCHANGED employee_leaves
                ELSE /\ employee_leaves' =
                            [employee_leaves EXCEPT ![employee_id] =
                                Deduct(@, leave_dates)]
                     /\ Return("apply_leave",
                               [kind |-> "Applied",
                                days |-> requested_days,
                                remaining |-> employee_leaves'[employee_id].balance])
    /\ UNCHANGED <<employee_tasks, thr>>

get_leave_history(employee_id) ==
    /\ ncalls < MaxCalls
    /\ IF employee_id \in DOMAIN employee_leaves
       THEN Return("get_leave_history",
                   [kind |-> "History", id |-> employee_id,
                    history |-> JoinOr(employee_leaves[employee_id].history,
                                       "No leaves taken.")])
       ELSE Return("get_leave_history", NotFound)
    /\ UNCHANGED <<employee_leaves, employee_tasks, thr>>

\* glyph * n   (Python: an empty string when n <= 0)
Times(glyph, n) == [i \in 1..(IF n > 0 THEN n ELSE 0) |-> glyph]

\* a variant that scales the bar against 18 instead of 20
Bar_Cap18(balance) == Times("filled", balance) \o Times("empty", 18 - balance)

\* main.py:65, the bar of one employee
Bar(balance) == Times("filled", balance) \o Times("empty", 20 - balance)

visualize_leave_summary ==
    /\ ncalls < MaxCalls
    /\ Return("visualize_leave_summary",
              [kind |-> "Summary",
               lines |-> [i \in 1..Len(Keys) |->
                            [id |-> Keys[i],
                             bar |-> Bar(employee_leaves[Keys[i]].balance),
                             days_left |-> employee_leaves[Keys[i]].balance]]])
    /\ UNCHANGED <<employee_leaves, employee_tasks, thr>>

\* the chart is modelled by the data it is drawn from
plot_leave_balances ==
    /\ ncalls < MaxCalls
    /\ Return("plot_leave_balances",
              [kind |-> "Plot",
               employees |-> Keys,
               balances |-> [i \in 1..Len(Keys) |-> employee_leaves[Keys[i]].balance]])
    /\ UNCHANGED <<employee_leaves, employee_tasks, thr>>

----------------------------------------------------------------------------
(* Work tracking tools *)

\* a variant that puts the new task in place of the list
Assign_Overwrite(rec, task) == [rec EXCEPT !.tasks = <<task>>]

\* main.py:100
Assign(rec, task) == [rec EXCEPT !.tasks = Append(@, task)]

\* a variant that creates the record of an unknown employee (dict.setdefault)
assign_task_Creating(employee_id, task) ==
    /\ ncalls < MaxCalls
    /\ employee_tasks' =
           [id \in DOMAIN employee_tasks \cup {employee_id} |->
               IF id = employee_id
               THEN Assign(IF id \in DOMAIN employee_tasks
                           THEN employee_tasks[id]
                           ELSE [tasks |-> <<>>, completed |-> <<>>], task)
               ELSE employee_tasks[id]]
    /\ Return("assign_task",
              [kind |-> "Assigned", task |-> task, id |-> employee_id])
    /\ UNCHANGED <<employee_leaves, thr>>

assign_task(employee_id, task) ==
    /\ ncalls < MaxCalls
    /\ IF employee_id \notin DOMAIN employee_tasks
       THEN /\ Return("assign_task", NotFound)
            /\ UNCHANGED employee_tasks
       ELSE /\ employee_tasks' =
                   [employee_tasks EXCEPT ![employee_id] = Assign(@, task)]
            /\ Return("assign_task",
                      [kind |-> "Assigned", task |-> task, id |-> employee_id])
    /\ UNCHANGED <<employee_leaves, thr>>

\* a variant with the test inverted
NotAssigned_Inverted(rec, task) == In(task, rec.tasks)

\* a variant without the test
NotAssigned_Skipped(rec, task) == FALSE

\* main.py:109, the task was never assigned
NotAssigned(rec, task) == ~In(task, rec.tasks)

\* a variant that looks only at the task marked last
AlreadyCompleted_LastOnly(rec, task) ==
    rec.completed # <<>> /\ rec.completed[Len(rec.completed)] = task

\* main.py:112, the task is already marked
AlreadyCompleted(rec, task) == In(task, rec.completed)

\* main.py:115
Complete(rec, task) == [rec EXCEPT !.completed = Append(@, task)]

complete_task(employee_id, task) ==
    /\ ncalls < MaxCalls
    /\ IF employee_id \notin DOMAIN employee_tasks
       THEN /\ Return("complete_task", NotFound)
            /\ UNCHANGED employee_tasks
       ELSE IF NotAssigned(employee_tasks[employee_id], task)
       THEN /\ Return("complete_task",
                      [kind |-> "TaskNotFound", task |-> task, id |-> employee_id])
            /\ UNCHANGED employee_tasks
       ELSE IF AlreadyCompleted(employee_tasks[employee_id], task)
       THEN /\ Return("complete_task",
                      [kind |-> "AlreadyCompleted", task |-> task])
            /\ UNCHANGED employee_tasks
       ELSE /\ employee_tasks' =
                   [employee_tasks EXCEPT ![employee_id] = Complete(@, task)]
            /\ Return("complete_task",
                      [kind |-> "Completed", task |-> task, id |-> employee_id])
    /\ UNCHANGED <<employee_leaves, thr>>

\* xs without its first occurrence of x
RECURSIVE RemoveFirst(_, _)
RemoveFirst(xs, x) ==
    IF xs = <<>> THEN <<>>
    ELSE IF Head(xs) = x THEN Tail(xs)
         ELSE <<Head(xs)>> \o RemoveFirst(Tail(xs), x)

\* xs without one occurrence of each element of ys
RECURSIVE RemoveEach(_, _)
RemoveEach(xs, ys) ==
    IF ys = <<>> THEN xs ELSE RemoveEach(RemoveFirst(xs, Head(ys)), Tail(ys))

\* a variant that takes completion by instance: each completed entry hides
\* one occurrence of its name
Pending_ByInstance(rec) == RemoveEach(rec.tasks, rec.completed)

\* a variant that takes completion by position: the tasks after the first
\* len(completed) ones
Pending_ByPosition(rec) ==
    SubSeq(rec.tasks, Len(rec.completed) + 1, Len(rec.tasks))

\* main.py:124, the pending tasks of a record
Pending(rec) == NotIn(rec.tasks, rec.completed)

\* what view_tasks returns for a known employee
TasksView(employee_id) ==
    [kind |-> "Tasks", id |-> employee_id,
     completed |-> JoinOr(employee_tasks[employee_id].completed,
                          "No tasks completed yet."),
     pending |-> JoinOr(Pending(employee_tasks[employee_id]),
                        "No pending tasks.")]

\* a variant that writes the pending list back as the task list
view_tasks_Pruning(employee_id) ==
    /\ ncalls < MaxCalls
    /\ IF employee_id \notin DOMAIN employee_tasks
       THEN /\ Return("view_tasks", NotFound)
            /\ UNCHANGED employee_tasks
       ELSE /\ Return("view_tasks", TasksView(employee_id))
            /\ employee_tasks' =
                   [employee_tasks EXCEPT ![employee_id].tasks =
                       Pending(employee_tasks[employee_id])]
    /\ UNCHANGED <<employee_leaves, thr>>

view_tasks(employee_id) ==
    /\ ncalls < MaxCalls
    /\ IF employee_id \notin DOMAIN employee_tasks
       THEN Return("view_tasks", NotFound)
       ELSE Return("view_tasks", TasksView(employee_id))
    /\ UNCHANGED <<employee_leaves, employee_tasks, thr>>

----------------------------------------------------------------------------
(* Sequential specification: one call at a time *)

Threads == {1, 2}

Idle == [pc |-> "idle"]

Init ==
    /\ employee_leaves = InitLeaves
    /\ employee_tasks = InitTasks
    /\ tool = ""
    /\ result = [kind |-> "None"]
    /\ ncalls = 0
    /\ thr = [t \in Threads |-> Idle]

Next ==
    \/ \E id \in Ids : get_leave_balance(id)
    \/ \E id \in Ids, dates \in DateLists : apply_leave(id, dates)
    \/ \E id \in Ids : get_leave_history(id)
    \/ visualize_leave_summary
    \/ plot_leave_balances
    \/ \E id \in Ids, task \in TaskNames : assign_task(id, task)
    \/ \E id \in Ids, task \in TaskNames : complete_task(id, task)
    \/ \E id \in Ids : view_tasks(id)

Spec == Init /\ [][Next]_vars

----------------------------------------------------------------------------
(* Concurrent specification: two workers inside apply_leave or             *)
(* complete_task at once.  Neither function takes a lock, so another       *)
(* worker may run between any two of their statements, and between the     *)
(* load and the store of line 45.                                          *)

\* a worker enters apply_leave
al_call(t, employee_id, leave_dates) ==
    /\ thr[t].pc = "idle"
    /\ thr' = [thr EXCEPT ![t] =
                 [pc |-> "L36", employee_id |-> employee_id,
                  leave_dates |-> leave_dates]]
    /\ UNCHANGED <<employee_leaves, employee_tasks, tool, result, ncalls>>

\* main.py:36-37
al_L36(t) ==
    /\ thr[t].pc = "L36"
    /\ thr' = [thr EXCEPT ![t] =
                 IF thr[t].employee_id \notin DOMAIN employee_leaves
                 THEN [pc |-> "done", ret |-> NotFound]
                 ELSE [@ EXCEPT !.pc = "L39"]]
    /\ UNCHANGED <<employee_leaves, employee_tasks, tool, result, ncalls>>

\* main.py:39-40, the read of the balance
al_L39(t) ==
    /\ thr[t].pc = "L39"
    /\ thr' = [thr EXCEPT ![t] =
                 [pc |-> "L42", employee_id |-> @.employee_id,
                  leave_dates |-> @.leave_dates,
                  requested_days |-> Len(@.leave_dates),
                  available_balance |-> employee_leaves[@.employee_id].balance]]
    /\ UNCHANGED <<employee_leaves, employee_tasks, tool, result, ncalls>>

\* main.py:42-43, the check against the balance read at line 40
al_L42(t) ==
    /\ thr[t].pc = "L42"
    /\ thr' = [thr EXCEPT ![t] =
                 IF Insufficient(@.available_balance, @.requested_days)
                 THEN [pc |-> "done",
                       ret |-> [kind |-> "Insufficient",
                                requested |-> @.requested_days,
                                available |-> @.available_balance]]
                 ELSE [@ EXCEPT !.pc = "L45"]]
    /\ UNCHANGED <<employee_leaves, employee_tasks, tool, result, ncalls>>

\* main.py:45, balance -= requested_days: the load and the subtraction
al_L45(t) ==
    /\ thr[t].pc = "L45"
    /\ thr' = [thr EXCEPT ![t] =
                 [pc |-> "L45s", employee_id |-> @.employee_id,
                  leave_dates |-> @.leave_dates,
                  requested_days |-> @.requested_days,
                  tmp |-> employee_leaves[@.employee_id].balance - @.requested_days]]
    /\ UNCHANGED <<employee_leaves, employee_tasks, tool, result, ncalls>>

\* main.py:45, balance -= requested_days: the store
al_L45s(t) ==
    /\ thr[t].pc = "L45s"
    /\ employee_leaves' =
           [employee_leaves EXCEPT ![thr[t].employee_id].balance = thr[t].tmp]
    /\ thr' = [thr EXCEPT ![t] =
                 [pc |-> "L46", employee_id |-> @.employee_id,
                  leave_dates |-> @.leave_dates,
                  requested_days |-> @.requested_days]]
    /\ UNCHANGED <<employee_tasks, tool, result, ncalls>>

\* main.py:46
al_L46(t) ==
    /\ thr[t].pc = "L46"
    /\ employee_leaves' =
           [employee_leaves EXCEPT ![thr[t].employee_id].history =
               @ \o thr[t].leave_dates]
    /\ thr' = [thr EXCEPT ![t].pc = "L48"]
    /\ UNCHANGED <<employee_tasks, tool, result, ncalls>>

\* main.py:48
al_L48(t) ==
    /\ thr[t].pc = "L48"
    /\ thr' = [thr EXCEPT ![t] =
                 [pc |-> "done",
                  ret |-> [kind |-> "Applied",
                           days |-> @.requested_days,
                           remaining |-> employee_leaves[@.employee_id].balance]]]
    /\ UNCHANGED <<employee_leaves, employee_tasks, tool, result, ncalls>>

\* a worker enters complete_task
ct_call(t, employee_id, task) ==
    /\ thr[t].pc = "idle"
    /\ thr' = [thr EXCEPT ![t] =
                 [pc |-> "L106", employee_id |-> employee_id, task |-> task]]
    /\ UNCHANGED <<employee_leaves, employee_tasks, tool, result, ncalls>>

\* main.py:106-107
ct_L106(t) ==
    /\ thr[t].pc = "L106"
    /\ thr' = [thr EXCEPT ![t] =
                 IF thr[t].employee_id \notin DOMAIN employee_tasks
                 THEN [pc |-> "done", ret |-> NotFound]
                 ELSE [@ EXCEPT !.pc = "L109"]]
    /\ UNCHANGED <<employee_leaves, employee_tasks, tool, result, ncalls>>

\* main.py:109-110, the membership test on tasks
ct_L109(t) ==
    /\ thr[t].pc = "L109"
    /\ thr' = [thr EXCEPT ![t] =
                 IF NotAssigned(employee_tasks[@.employee_id], @.task)
                 THEN [pc |-> "done",
                       ret |-> [kind |-> "TaskNotFound", task |-> @.task,
                                id |-> @.employee_id]]
                 ELSE [@ EXCEPT !.pc = "L112"]]
    /\ UNCHANGED <<employee_leaves, employee_tasks, tool, result, ncalls>>

\* main.py:112-113, the membership test on completed
ct_L112(t) ==
    /\ thr[t].pc = "L112"
    /\ thr' = [thr EXCEPT ![t] =
                 IF AlreadyCompleted(employee_tasks[@.employee_id], @.task)
                 THEN [pc |-> "done",
                       ret |-> [kind |-> "AlreadyCompleted", task |-> @.task]]
                 ELSE [@ EXCEPT !.pc = "L115"]]
    /\ UNCHANGED <<employee_leaves, employee_tasks, tool, result, ncalls>>

\* main.py:115
ct_L115(t) ==
    /\ thr[t].pc = "L115"
    /\ employee_tasks' =
           [employee_tasks EXCEPT ![thr[t].employee_id] = Complete(@, thr[t].task)]
    /\ thr' = [thr EXCEPT ![t].pc = "L116"]
    /\ UNCHANGED <<employee_leaves, tool, result, ncalls>>

\* main.py:116
ct_L116(t) ==
    /\ thr[t].pc = "L116"
    /\ thr' = [thr EXCEPT ![t] =
                 [pc |-> "done",
                  ret |-> [kind |-> "Completed", task |-> @.task,
                           id |-> @.employee_id]]]
    /\ UNCHANGED <<employee_leaves, employee_tasks, tool, result, ncalls>>

NextConc ==
    \/ \E t \in Threads, id \in Ids, dates \in DateLists : al_call(t, id, dates)
    \/ \E t \in Threads : al_L36(t)
    \/ \E t \in Threads : al_L39(t)
    \/ \E t \in Threads : al_L42(t)
    \/ \E t \in Threads : al_L45(t)
    \/ \E t \in Threads : al_L45s(t)
    \/ \E t \in Threads : al_L46(t)
    \/ \E t \in Threads : al_L48(t)
    \/ \E t \in Threads, id \in Ids, task \in TaskNames : ct_call(t, id, task)
    \/ \E t \in Threads : ct_L106(t)
    \/ \E t \in Threads : ct_L109(t)
    \/ \E t \in Threads : ct_L112(t)
    \/ \E t \in Threads : ct_L115(t)
    \/ \E t \in Threads : ct_L116(t)

SpecConc == Init /\ [][NextConc]_vars

----------------------------------------------------------------------------
(* Properties *)

Known == DOMAIN employee_leaves

\* xs is a prefix of ys
IsPrefix(xs, ys) == Len(xs) <= Len(ys) /\ SubSeq(ys, 1, Len(xs)) = xs

\* C1: after any sequence of calls made one at a time, starting from the
\* initial store, the balance of every employee is >= 0.
C1_BalanceNonNegative ==
    \A id \in DOMAIN employee_leaves : employee_leaves[id].balance >= 0

\* C1 witness: an employee has used the whole balance and a further request
\* for at least one day was turned down.
C1_Witness ==
    /\ tool = "apply_leave"
    /\ result.kind = "Insufficient"
    /\ result.available = 0
    /\ result.requested > 0
    /\ \E id \in DOMAIN employee_leaves : employee_leaves[id].balance = 0

\* C3: for a known id, apply_leave(id, dates) with len(dates) > balance(id)
\* leaves the balance and the history of id as they were and returns the
\* insufficient-balance outcome with requested = len(dates) and available =
\* the unchanged balance.
C3_RejectedLeavesRecord ==
    [][\A id \in Known, dates \in DateLists :
         (apply_leave(id, dates) /\ Len(dates) > employee_leaves[id].balance)
         => /\ employee_leaves'[id].balance = employee_leaves[id].balance
            /\ employee_leaves'[id].history = employee_leaves[id].history
            /\ result' = [kind |-> "Insufficient",
                          requested |-> Len(dates),
                          available |-> employee_leaves'[id].balance]]_vars

\* C3 witness: a request was turned down for an employee whose record had
\* already been changed by an earlier successful request.
C3_Witness ==
    /\ tool = "apply_leave"
    /\ result.kind = "Insufficient"
    /\ result.requested > result.available
    /\ \E id \in Known :
         /\ employee_leaves[id].balance = result.available
         /\ employee_leaves[id] # InitLeaves[id]

\* C4: for a known id, a successful apply_leave(id, dates) with n = len(dates)
\* sets the balance to the old balance minus n, sets the history to the old
\* history followed by dates in the order given (duplicates kept), and reports
\* n days applied and the new balance; from the initial state
\* apply_leave("E001", two dates) gives balance 16, the two dates at the end
\* of the history, and a message with 2 applied and 16 remaining.
C4_AppliedDeductsAndAppends ==
    [][/\ \A id \in Known, dates \in DateLists :
            (apply_leave(id, dates) /\ Len(dates) <= employee_leaves[id].balance)
            => /\ employee_leaves'[id].balance =
                      employee_leaves[id].balance - Len(dates)
               /\ employee_leaves'[id].history =
                      employee_leaves[id].history \o dates
               /\ result' = [kind |-> "Applied",
                             days |-> Len(dates),
                             remaining |-> employee_leaves'[id].balance]
       /\ (employee_leaves = InitLeaves /\ apply_leave("E001", <<D1, D2>>))
            => /\ employee_leaves'["E001"].balance = 16
               /\ employee_leaves'["E001"].history =
                      <<"2024-12-25", "2025-01-01", D1, D2>>
               /\ result' = [kind |-> "Applied", days |-> 2, remaining |-> 16]
      ]_vars

\* C4 witness: a list with the same date twice was applied after another
\* successful request, and both copies are at the end of the history.
C4_Witness ==
    /\ tool = "apply_leave"
    /\ result.kind = "Applied"
    /\ result.days = 2
    /\ \E id \in Known :
         LET h == employee_leaves[id].history
         IN  /\ employee_leaves[id].balance = result.remaining
             /\ Len(h) >= Len(InitLeaves[id].history) + 4
             /\ SubSeq(h, Len(h) - 3, Len(h)) = <<D1, D2, D2, D2>>

\* C5: the history of every employee is append-only and never reordered: in
\* every step the old history is a prefix of the new one; what is added is
\* exactly the date list of a successful apply_leave for that employee, at
\* the end; failed apply_leave calls and all other operations add nothing;
\* and get_leave_history shows the history as it stands.
C5_HistoryAppendOnly ==
    [][\A id \in Known :
         LET h == employee_leaves[id].history
             h2 == employee_leaves'[id].history
         IN  /\ IsPrefix(h, h2)
             /\ h2 # h =>
                  /\ tool' = "apply_leave"
                  /\ result'.kind = "Applied"
                  /\ \E dates \in DateLists :
                       apply_leave(id, dates) /\ h2 = h \o dates
             /\ (tool' # "apply_leave" \/ result'.kind # "Applied") => h2 = h
             /\ get_leave_history(id) =>
                  /\ result'.kind = "History"
                  /\ result'.id = id
                  /\ result'.history = IF h2 = <<>> THEN <<"No leaves taken.">> ELSE h2
      ]_vars

\* C5 witness: get_leave_history shows the initial history followed by the
\* dates of two successful requests, in call order.
C5_Witness ==
    /\ tool = "get_leave_history"
    /\ result.kind = "History"
    /\ result.id = "E001"
    /\ result.history = <<"2024-12-25", "2025-01-01", D1, D2, D2, D2>>
    /\ ncalls >= 4

\* C2: when two apply_leave calls for the same employee interleave, the
\* check-then-act is atomic: a worker that has passed the balance check and
\* not yet deducted never holds a check that the other worker's deduction
\* has made stale, and the balance never becomes negative.
C2_CheckThenActAtomic ==
    /\ \A t \in Threads :
         thr[t].pc \in {"L45", "L45s"}
         => thr[t].requested_days <= employee_leaves[thr[t].employee_id].balance
    /\ \A id \in DOMAIN employee_leaves : employee_leaves[id].balance >= 0

\* C6 as amended: for every known id and every task name t that is not
\* already in completed(id), assign_task(id, t) followed by
\* complete_task(id, t) moves t from pending to completed in view_tasks(id):
\* after the assign t is listed as pending and not as completed, the complete
\* succeeds, and after it t is listed as completed and no longer as pending.
C6_AssignThenCompleteMoves ==
    [][\A id \in DOMAIN employee_tasks, t \in TaskNames :
         ~In(t, employee_tasks[id].completed) =>
           /\ assign_task(id, t) =>
                /\ In(t, TasksView(id)'.pending)
                /\ ~In(t, TasksView(id)'.completed)
           /\ ( /\ tool = "assign_task"
                /\ result.kind = "Assigned" /\ result.id = id /\ result.task = t
                /\ complete_task(id, t) ) =>
                /\ result'.kind = "Completed"
                /\ In(t, TasksView(id)'.completed)
                /\ ~In(t, TasksView(id)'.pending)
      ]_vars

\* C6 witness: a task assigned in this run was completed by the next call and
\* view_tasks then lists it as completed and not as pending.
C6_Witness ==
    /\ tool = "view_tasks"
    /\ result.kind = "Tasks"
    /\ result.id = "E002"
    /\ In("Write tests", result.completed)
    /\ ~In("Write tests", result.pending)
    /\ In("Write tests", employee_tasks["E002"].tasks)

\* C6 as stated: for every known id and every task name t, in any reachable
\* state, after assign_task(id, t) t is listed as pending, and after the
\* complete_task(id, t) that follows t is listed as completed and no longer
\* as pending.
C6_AsStated ==
    [][\A id \in DOMAIN employee_tasks, t \in TaskNames :
           /\ assign_task(id, t) => In(t, TasksView(id)'.pending)
           /\ ( /\ tool = "assign_task"
                /\ result.kind = "Assigned" /\ result.id = id /\ result.task = t
                /\ complete_task(id, t) ) =>
                /\ In(t, TasksView(id)'.completed)
                /\ ~In(t, TasksView(id)'.pending)
      ]_vars

\* no task name occurs twice in any completed list
NoDuplicateCompleted ==
    \A id \in DOMAIN employee_tasks :
      \A i, j \in 1..Len(employee_tasks[id].completed) :
        employee_tasks[id].completed[i] = employee_tasks[id].completed[j] => i = j

\* C7: complete_task(id, t) for a task name t already in completed(id) reports
\* the already-completed outcome and leaves tasks and completed unchanged; so
\* in every state reachable by sequential calls no task name occurs more than
\* once in any employee's completed list.
C7_AlreadyCompletedNoDuplicate ==
    /\ NoDuplicateCompleted
    /\ [][/\ \A id \in DOMAIN employee_tasks, t \in TaskNames :
               (complete_task(id, t) /\ In(t, employee_tasks[id].completed))
               => /\ result'.kind = "AlreadyCompleted"
                  /\ result'.task = t
                  /\ employee_tasks' = employee_tasks
          /\ NoDuplicateCompleted'
         ]_vars

\* C7 witness: a task completed in this run, and assigned twice, was
\* completed again: the call was refused and the name is in completed once.
C7_Witness ==
    /\ tool = "complete_task"
    /\ result.kind = "AlreadyCompleted"
    /\ result.task = "Update website"
    /\ employee_tasks["E002"].completed = <<"Update website">>
    /\ Len(employee_tasks["E002"].tasks) = 3
    /\ employee_tasks["E002"].tasks[3] = "Update website"

\* C8: complete_task(id, t) for a known id and a task name t that does not
\* occur in tasks(id) reports the task-not-assigned outcome and leaves
\* completed(id) and tasks(id) unchanged.
C8_NotAssignedLeavesRecord ==
    [][\A id \in DOMAIN employee_tasks, t \in TaskNames :
         (complete_task(id, t) /\ ~In(t, employee_tasks[id].tasks))
         => /\ result'.kind = "TaskNotFound"
            /\ result'.task = t
            /\ result'.id = id
            /\ employee_tasks'[id].completed = employee_tasks[id].completed
            /\ employee_tasks'[id].tasks = employee_tasks[id].tasks
      ]_vars

\* C8 witness: a task that was never assigned to E001 was turned down after
\* it had been assigned to E002, and E001 completed nothing new.
C8_Witness ==
    /\ tool = "complete_task"
    /\ result.kind = "TaskNotFound"
    /\ result.task = "Write tests"
    /\ result.id = "E001"
    /\ In("Write tests", employee_tasks["E002"].tasks)
    /\ employee_tasks["E001"].completed = <<"Prepare report">>

\* the keys of both stores are the employees they were built with
SameEmployees ==
    /\ DOMAIN employee_leaves = DOMAIN InitLeaves
    /\ DOMAIN employee_tasks = DOMAIN InitTasks

\* C9: every operation that takes an employee id, given an id that is not a
\* key of the store, reports the not-found outcome and leaves both stores
\* unchanged; no record is created, so the employee ids of each store are
\* the same in every reachable state.
C9_UnknownIdNotFound ==
    /\ SameEmployees
    /\ [][/\ \A id \in Ids \ DOMAIN employee_leaves :
               ( \/ get_leave_balance(id)
                 \/ get_leave_history(id)
                 \/ \E dates \in DateLists : apply_leave(id, dates) )
               => /\ result'.kind = "NotFound"
                  /\ employee_leaves' = employee_leaves
                  /\ employee_tasks' = employee_tasks
          /\ \A id \in Ids \ DOMAIN employee_tasks :
               ( \/ view_tasks(id)
                 \/ \E t \in TaskNames : assign_task(id, t)
                 \/ \E t \in TaskNames : complete_task(id, t) )
               => /\ result'.kind = "NotFound"
                  /\ employee_leaves' = employee_leaves
                  /\ employee_tasks' = employee_tasks
          /\ SameEmployees'
         ]_vars

\* C9 witness: assign_task was called with an unknown id after both stores
\* had been changed, and reported not-found.
C9_Witness ==
    /\ tool = "assign_task"
    /\ result.kind = "NotFound"
    /\ employee_leaves # InitLeaves
    /\ employee_tasks # InitTasks
    /\ SameEmployees

\* every name in a completed list is in the tasks list of the same employee
CompletedWereAssigned ==
    \A id \in DOMAIN employee_tasks :
      \A i \in 1..Len(employee_tasks[id].completed) :
        In(employee_tasks[id].completed[i], employee_tasks[id].tasks)

\* C10: in every reachable state, for every employee, every task name in
\* completed also occurs in tasks; an entry is added to completed only if
\* its name was in tasks before it was marked.
C10_CompletedSubsetOfTasks ==
    /\ CompletedWereAssigned
    /\ [][/\ \A id \in DOMAIN employee_tasks :
               employee_tasks'[id].completed # employee_tasks[id].completed
               => \E t \in TaskNames :
                    /\ In(t, employee_tasks[id].tasks)
                    /\ employee_tasks'[id].completed =
                           Append(employee_tasks[id].completed, t)
          /\ CompletedWereAssigned'
         ]_vars

\* C10 witness: a task that is not in the initial store was assigned and
\* then marked completed.
C10_Witness ==
    \E id \in DOMAIN employee_tasks :
      /\ In("Write tests", employee_tasks[id].completed)
      /\ In("Write tests", employee_tasks[id].tasks)

\* C11: a task name in completed is never removed: in every step each
\* employee's completed list is a prefix of the new one, and the tasks list
\* changes only by one name appended at its end.
C11_ListsOnlyGrow ==
    [][\A id \in DOMAIN employee_tasks :
         LET rec == employee_tasks[id]
             rec2 == employee_tasks'[id]
         IN  /\ IsPrefix(rec.completed, rec2.completed)
             /\ IsPrefix(rec.tasks, rec2.tasks)
             /\ Len(rec2.tasks) <= Len(rec.tasks) + 1
             /\ \A i \in 1..Len(rec.completed) : In(rec.completed[i], rec2.completed)
      ]_vars

\* C11 witness: an employee's tasks and completed lists have both grown and
\* still begin with the lists of the initial store.
C11_Witness ==
    \E id \in DOMAIN employee_tasks :
      /\ Len(employee_tasks[id].tasks) >= Len(InitTasks[id].tasks) + 2
      /\ Len(employee_tasks[id].completed) >= Len(InitTasks[id].completed) + 2
      /\ IsPrefix(InitTasks[id].tasks, employee_tasks[id].tasks)
      /\ IsPrefix(InitTasks[id].completed, employee_tasks[id].completed)

\* C12: view_tasks(id) reports as pending exactly the elements of tasks(id)
\* whose name is not in completed(id), in tasks order and by name (every
\* occurrence of a completed name is left out, every occurrence of an
\* uncompleted name is kept), and completed(id) in its own order; from the
\* initial state complete_task("E002", "Update website") gives pending
\* ["Backup database"] and completed ["Update website"].
C12_PendingByName ==
    [][/\ \A id \in DOMAIN employee_tasks :
            view_tasks(id) =>
              LET rec == employee_tasks'[id]
                  kept == SelectSeq(rec.tasks,
                                    LAMBDA x : \A i \in 1..Len(rec.completed) :
                                                  rec.completed[i] # x)
              IN  /\ result'.kind = "Tasks"
                  /\ result'.id = id
                  /\ result'.pending =
                         IF kept = <<>> THEN <<"No pending tasks.">> ELSE kept
                  /\ result'.completed =
                         IF rec.completed = <<>> THEN <<"No tasks completed yet.">>
                         ELSE rec.completed
       /\ (employee_tasks = InitTasks /\ complete_task("E002", "Update website"))
            => /\ TasksView("E002")'.pending = <<"Backup database">>
               /\ TasksView("E002")'.completed = <<"Update website">>
      ]_vars

\* C12 witness: view_tasks was called for an employee whose tasks hold a
\* completed name twice; both copies are left out of pending and the
\* uncompleted names are listed in tasks order.
C12_Witness ==
    /\ tool = "view_tasks"
    /\ result.kind = "Tasks"
    /\ result.id = "E002"
    /\ employee_tasks["E002"].tasks =
           <<"Update website", "Backup database", "Update website", "Write tests">>
    /\ employee_tasks["E002"].completed = <<"Update website">>
    /\ result.pending = <<"Backup database", "Write tests">>
    /\ result.completed = <<"Update website">>

\* the last call returned the answer for this id (the not-found answer for
\* an unknown one)
AnsweredFor(id) ==
    IF id \in Known THEN result.kind # "NotFound" /\ result.id = id
    ELSE result.kind = "NotFound"

\* C13: get_leave_balance, get_leave_history, view_tasks,
\* visualize_leave_summary and plot_leave_balances never change either
\* store, for any argument, and the same read made again right after itself
\* returns the same result.
C13_ReadsDoNotMutate ==
    [][/\ \A id \in Ids :
            (get_leave_balance(id) \/ get_leave_history(id) \/ view_tasks(id))
            => /\ employee_leaves' = employee_leaves
               /\ employee_tasks' = employee_tasks
       /\ (visualize_leave_summary \/ plot_leave_balances)
            => /\ employee_leaves' = employee_leaves
               /\ employee_tasks' = employee_tasks
       /\ \A id \in Ids :
            /\ (tool = "get_leave_balance" /\ AnsweredFor(id) /\ get_leave_balance(id))
                 => result' = result
            /\ (tool = "get_leave_history" /\ AnsweredFor(id) /\ get_leave_history(id))
                 => result' = result
            /\ (tool = "view_tasks" /\ AnsweredFor(id) /\ view_tasks(id))
                 => result' = result
       /\ (tool = "visualize_leave_summary" /\ visualize_leave_summary)
            => result' = result
       /\ (tool = "plot_leave_balances" /\ plot_leave_balances)
            => result' = result
      ]_vars

\* C13 witness: after both stores were changed, a read was made and the
\* stores are as the mutations left them.
C13_Witness ==
    /\ tool = "plot_leave_balances"
    /\ result.kind = "Plot"
    /\ result.balances = <<16, 20>>
    /\ employee_leaves["E001"].balance = 16
    /\ employee_tasks["E002"].completed = <<"Update website">>
    /\ ncalls = 4

\* C14: for a known id, apply_leave(id, dates) succeeds exactly when
\* len(dates) <= balance(id) and is rejected otherwise: a request for the
\* whole remaining balance succeeds and leaves balance 0, a request for one
\* more than the balance is rejected, and a request with no dates always
\* succeeds (also at balance 0) and leaves balance and history unchanged.
C14_SucceedsIffWithinBalance ==
    [][\A id \in Known, dates \in DateLists :
         apply_leave(id, dates) =>
           LET n == Len(dates)
               b == employee_leaves[id].balance
           IN  /\ result'.kind \in {"Applied", "Insufficient"}
               /\ result'.kind = "Applied" <=> n <= b
               /\ n = b => (result'.kind = "Applied"
                            /\ employee_leaves'[id].balance = 0)
               /\ n = b + 1 => (result'.kind = "Insufficient"
                                /\ employee_leaves'[id] = employee_leaves[id])
               /\ n = 0 => (result'.kind = "Applied"
                            /\ employee_leaves'[id] = employee_leaves[id])
      ]_vars

\* C14 witness: a request with no dates succeeded for an employee whose
\* balance an earlier request for the whole balance had brought to 0.
C14_Witness ==
    /\ tool = "apply_leave"
    /\ result.kind = "Applied"
    /\ result.days = 0
    /\ result.remaining = 0
    /\ \E id \in Known :
         /\ employee_leaves[id].balance = 0
         /\ Len(employee_leaves[id].history) = Len(InitLeaves[id].history) + InitLeaves[id].balance

\* C14 second case: a request for one more than the balance was rejected.
C14_WitnessOneMore ==
    /\ tool = "apply_leave"
    /\ result.kind = "Insufficient"
    /\ result.requested = result.available + 1

\* C15: when two complete_task calls for the same employee and the same
\* assigned, not yet completed task name interleave, they see a consistent
\* tasks/completed pair: at most one of them succeeds and the name ends up
\* exactly once in completed.
C15_ConcurrentCompleteOnce ==
    /\ NoDuplicateCompleted
    /\ \A t1, t2 \in Threads :
         ( /\ t1 # t2
           /\ thr[t1].pc = "done" /\ thr[t2].pc = "done"
           /\ thr[t1].ret.kind = "Completed" /\ thr[t2].ret.kind = "Completed"
           /\ thr[t1].ret.id = thr[t2].ret.id )
         => thr[t1].ret.task # thr[t2].ret.task

\* every balance is between 0 and 20
BalanceWithinScale ==
    \A id \in DOMAIN employee_leaves :
      employee_leaves[id].balance >= 0 /\ employee_leaves[id].balance <= 20

\* C16: in every reachable state visualize_leave_summary gives one line per
\* known employee in store order, whose bar is balance filled glyphs followed
\* by 20 - balance empty glyphs, 20 glyphs in all; 0 <= balance <= 20 holds
\* for every employee in every reachable state.
C16_BarHasTwentyGlyphs ==
    /\ BalanceWithinScale
    /\ [][/\ BalanceWithinScale'
          /\ visualize_leave_summary =>
               /\ result'.kind = "Summary"
               /\ Len(result'.lines) = Len(Keys)
               /\ \A i \in 1..Len(Keys) :
                    LET line == result'.lines[i]
                        b == employee_leaves'[Keys[i]].balance
                    IN  /\ line.id = Keys[i]
                        /\ line.days_left = b
                        /\ Len(line.bar) = 20
                        /\ \A k \in 1..20 :
                             line.bar[k] = IF k <= b THEN "filled" ELSE "empty"
         ]_vars

\* C16 witness: the summary was drawn with one employee at balance 0 (a bar
\* of 20 empty glyphs) and the other at a balance lowered by this run.
C16_Witness ==
    /\ tool = "visualize_leave_summary"
    /\ result.kind = "Summary"
    /\ result.lines[1].days_left = 0
    /\ result.lines[1].bar = [k \in 1..20 |-> "empty"]
    /\ result.lines[2].days_left = 19
    /\ result.lines[2].bar[19] = "filled"
    /\ result.lines[2].bar[20] = "empty"

\* balance + length(history) of every employee is what it was initially
Conserved(leaves) ==
    \A id \in DOMAIN leaves :
      /\ leaves[id].balance + Len(leaves[id].history) = 20
      /\ leaves[id].balance + Len(leaves[id].history) =
             InitLeaves[id].balance + Len(InitLeaves[id].history)
      /\ Len(leaves[id].history) - Len(InitLeaves[id].history)
             <= InitLeaves[id].balance

\* C17: for every employee balance + length(history) is the same in every
\* state reachable by sequential calls as in the initial state (20 for E001
\* and for E002); so the balance never increases and the number of dates
\* applied for an employee never exceeds that employee's initial balance.
C17_Conservation ==
    /\ Conserved(employee_leaves)
    /\ [][/\ Conserved(employee_leaves')
          /\ \A id \in DOMAIN employee_leaves :
               employee_leaves'[id].balance <= employee_leaves[id].balance
         ]_vars

\* C17 witness: after at least three calls an employee has used the whole
\* initial balance, the last day of it in a request of its own.
C17_Witness ==
    \E id \in DOMAIN employee_leaves :
      /\ employee_leaves[id].balance = 0
      /\ Len(employee_leaves[id].history) = 20
      /\ tool = "apply_leave"
      /\ result.kind = "Applied"
      /\ result.days = 1
      /\ ncalls >= 3

\* the leave record and the task record of every employee but id are as
\* they were
OthersUnchanged(id) ==
    /\ \A other \in DOMAIN employee_leaves \ {id} :
         employee_leaves'[other] = employee_leaves[other]
    /\ \A other \in DOMAIN employee_tasks \ {id} :
         employee_tasks'[other] = employee_tasks[other]

\* C18: every operation called for employee X leaves the leave record and
\* the task record of every other employee unchanged; apply_leave never
\* changes the task store, and assign_task and complete_task never change
\* the leave store.
C18_Frame ==
    [][\A id \in Ids :
         /\ (get_leave_balance(id) \/ get_leave_history(id) \/ view_tasks(id))
              => OthersUnchanged(id)
         /\ tool' = "apply_leave" =>
              \A dates \in DateLists :
                apply_leave(id, dates)
                => OthersUnchanged(id) /\ employee_tasks' = employee_tasks
         /\ tool' \in {"assign_task", "complete_task"} =>
              \A t \in TaskNames :
                (assign_task(id, t) \/ complete_task(id, t))
                => OthersUnchanged(id) /\ employee_leaves' = employee_leaves
      ]_vars

\* C18 witness: a request for E001 succeeded while E002 held a leave record
\* and a task record changed by earlier calls, and both are still as those
\* calls left them.
C18_Witness ==
    /\ tool = "apply_leave"
    /\ result.kind = "Applied"
    /\ result.days = 2
    /\ result.remaining = 16
    /\ employee_leaves["E001"].balance = 16
    /\ employee_leaves["E002"] = [balance |-> 19, history |-> <<D1>>]
    /\ employee_tasks["E002"].completed = <<"Update website">>
    /\ employee_tasks["E001"] = InitTasks["E001"]

\* how many times x occurs in xs
Occurrences(x, xs) == Cardinality({i \in 1..Len(xs) : xs[i] = x})

\* no name is both missing from tasks and present in completed, and no name
\* is in completed more than once
ChecksExclusive(tasks) ==
    \A id \in DOMAIN tasks, t \in TaskNames :
      /\ ~(~In(t, tasks[id].tasks) /\ In(t, tasks[id].completed))
      /\ Occurrences(t, tasks[id].completed) <= 1

\* C19: in every reachable state and for every (id, t) exactly one of the
\* outcomes not-found, task-not-assigned, already-completed and success
\* applies to complete_task(id, t); t not in tasks and t in completed are
\* never both true, so the result is the same with the two tests in the
\* other order; and over a sequential run complete_task(id, t) succeeds at
\* most once for each (id, t): a success adds one occurrence of t to
\* completed(id), nothing else changes the number of occurrences, and that
\* number never exceeds 1.
C19_CompleteOutcomeDetermined ==
    /\ ChecksExclusive(employee_tasks)
    /\ [][/\ ChecksExclusive(employee_tasks')
          /\ \A id \in Ids, t \in TaskNames :
               LET known == id \in DOMAIN employee_tasks
                   missing == known /\ ~In(t, employee_tasks[id].tasks)
                   marked == known /\ In(t, employee_tasks[id].completed)
                   fresh == known /\ In(t, employee_tasks[id].tasks)
                                  /\ ~In(t, employee_tasks[id].completed)
               IN  /\ Cardinality({c \in {"NotFound", "TaskNotFound",
                                          "AlreadyCompleted", "Completed"} :
                         \/ c = "NotFound" /\ ~known
                         \/ c = "TaskNotFound" /\ missing
                         \/ c = "AlreadyCompleted" /\ marked
                         \/ c = "Completed" /\ fresh}) = 1
                   /\ (tool' = "complete_task" /\ complete_task(id, t)) =>
                        /\ result'.kind =
                               IF ~known THEN "NotFound"
                               ELSE IF marked THEN "AlreadyCompleted"
                               ELSE IF missing THEN "TaskNotFound"
                               ELSE "Completed"
                        /\ result'.kind = "Completed" =>
                             Occurrences(t, employee_tasks'[id].completed) =
                                 Occurrences(t, employee_tasks[id].completed) + 1
                   /\ (known /\ employee_tasks'[id] # employee_tasks[id]) =>
                        /\ Occurrences(t, employee_tasks'[id].completed) >=
                               Occurrences(t, employee_tasks[id].completed)
                        /\ Occurrences(t, employee_tasks'[id].completed) #
                               Occurrences(t, employee_tasks[id].completed)
                           => /\ tool' = "complete_task"
                              /\ result'.kind = "Completed"
                              /\ result'.task = t
                              /\ result'.id = id
         ]_vars

\* C19 witness: a task was assigned and completed in this run, and
\* complete_task called again for the same employee and task was refused as
\* already completed.
C19_Witness ==
    /\ tool = "complete_task"
    /\ result.kind = "AlreadyCompleted"
    /\ result.task = "Write tests"
    /\ \E id \in DOMAIN employee_tasks :
         /\ Occurrences("Write tests", employee_tasks[id].completed) = 1
         /\ Occurrences("Write tests", employee_tasks[id].tasks) = 1
         /\ ncalls = 3

====
